---- MODULE Spec2Model ----
(***************************************************************************)
(* Model of the storefront media pipeline:                                 *)
(*   - ProductImageManager (React component): the in-session MediaItem     *)
(*     list, its local object references and the busy flag;                *)
(*   - uploadProductImages / saveProductImages: the sequential upload loop. *)
(* Event handlers run to completion on one thread; the only suspension     *)
(* point of the component is the await of the validator in                 *)
(* handleFileSelect, so that handler is split in two actions.              *)
(***************************************************************************)
EXTENDS Integers, Sequences, FiniteSets, TLC

(***************************************************************************)
(* Bounds of the model.                                                    *)
(***************************************************************************)
\* The maxImages prop of the component (default 10), configured small.
maxImages == 3
\* Longest FileList a picker or drop event delivers.
MaxBatch == 2
\* Longest list of files handed to uploadProductImages.
MaxUpload == 3
\* The crops completed in one session of the component.
MaxCrops == 1

(***************************************************************************)
(* Values.                                                                 *)
(***************************************************************************)
\* An optional field that is absent (file?, fileHash?, blobUrl?), and null.
Undefined == 0
\* The File built by handleCropComplete (recropped-<uuid>.jpg).
CroppedFile == -1
\* Id and url of an item that came from the database, not from this session.
PersistedId == 0
RemoteUrl == 0

\* Candidate files: 1, 2 and 3 are distinct images (each its own content hash
\* and its own visual fingerprint), 4 has a type or a size the validator
\* refuses.
Files == {1, 2, 3, 4}
FileHash(f) == f
Fingerprint(f) == f
FileValid(f) == f # 4

\* `new-${uuidv4()}` is an id never seen before.  The model names the id of
\* an item after the file it was created for.  The names stay unique: while
\* an id is referenced (by the list, by a suspended handleFileSelect or by
\* fileReferences) the validator refuses that file as a duplicate.
NewId(f) == f
IdPool == Files

\* URL.createObjectURL returns a URL never seen before: the model names it
\* after the id it is recorded under, with a version.  A revoked URL that
\* nothing refers to any more can never reach the program again: the model
\* forgets it and hands its name out again.
Versions == 0..3
Url(id, version) == id * 4 + version
UrlPool == {Url(id, v) : id \in IdPool \cup {PersistedId}, v \in Versions}
              \ {RemoteUrl}

VARIABLES
  images,             \* the images prop: the host's MediaItem list
  fileReferences,     \* fileReferencesRef.current: id -> object URL
  processingQueueRef, \* processingQueueRef.current
  isProcessing,       \* the isProcessing state
  imageToRecrop,      \* id of the item handed to the cropper, or Undefined
  showCropper,        \* the showCropper state
  pending,            \* additions suspended at the await of the validator
  objectUrls,         \* per object URL: "none", "live" or "revoked"
  blobUrls,           \* per validator-assigned blob reference: the same
  blobRegistry,       \* the Blob Registry: registered reference -> hash
  mounted,            \* FALSE once the teardown effect has run
  toasts,             \* notifications raised by the last handler
  revoked,            \* the references the last handler released
  lastRemoved,        \* history: the item the last handler removed, if it
                      \* was removeImage, and the length of the list then
  crops               \* history: the crops completed so far

VARIABLES
  files,              \* uploadProductImages: how many files it was given
  fileState,          \* per file: where its iteration of the loop stands
  started,            \* the iterations of the loop begun so far
  uploadedImages,     \* the uploadedImages array
  uploadToasts,       \* the failures reported to the user
  uploadResult,       \* how uploadProductImages ended, if it has
  productImages,      \* the product_images rows written for the product
  saveResult,         \* how saveProductImages ended, if it has
  attempts            \* tries made of the operation handed to the retry wrapper

uploadVars == <<files, fileState, started, uploadedImages, uploadToasts,
                uploadResult, productImages, saveResult, attempts>>

mediaVars == <<images, fileReferences, processingQueueRef, isProcessing,
               imageToRecrop, showCropper, pending, objectUrls, blobUrls,
               blobRegistry, mounted, toasts, revoked, lastRemoved, crops>>

(***************************************************************************)
(* Helpers.                                                                *)
(***************************************************************************)
Range(s) == {s[k] : k \in DOMAIN s}

Min(a, b) == IF a < b THEN a ELSE b
Max(a, b) == IF a > b THEN a ELSE b

\* Array.prototype.slice(0, end): a negative end counts from the tail.
Slice(s, end) ==
  LET e == IF end < 0 THEN Max(Len(s) + end, 0) ELSE Min(end, Len(s))
  IN SubSeq(s, 1, e)

Put(m, k, v) == [x \in DOMAIN m \cup {k} |-> IF x = k THEN v ELSE m[x]]
Drop(m, k) == [x \in DOMAIN m \ {k} |-> m[x]]

Toast(kind, names) == [kind |-> kind, files |-> names]

\* The value of lastRemoved after a handler that is not removeImage.
NoRemoval ==
  [id |-> Undefined, hash |-> Undefined, featured |-> FALSE, len |-> 0]

Ids(imgs) == {imgs[k].id : k \in DOMAIN imgs}
ItemOf(imgs, id) == imgs[CHOOSE k \in DOMAIN imgs : imgs[k].id = id]
FeaturedCount(imgs) == Cardinality({k \in DOMAIN imgs : imgs[k].isFeatured})

\* URL.revokeObjectURL and URL.createObjectURL.
Revoke(st, S) == [u \in DOMAIN st |-> IF u \in S THEN "revoked" ELSE st[u]]
Create(st, S) == [u \in DOMAIN st |-> IF u \in S THEN "live" ELSE st[u]]

UrlsIn(imgs, refs, closures) ==
  {imgs[k].url : k \in DOMAIN imgs} \cup Range(refs)
    \cup UNION {{closures[k].images[j].url : j \in DOMAIN closures[k].images}
                  : k \in DOMAIN closures}
BlobsIn(imgs, reg, closures) ==
  {imgs[k].blobUrl : k \in DOMAIN imgs} \cup DOMAIN reg
    \cup UNION {{closures[k].images[j].blobUrl
                   : j \in DOMAIN closures[k].images} : k \in DOMAIN closures}

Forget(st, referenced) ==
  [u \in DOMAIN st |->
     IF st[u] = "revoked" /\ u \notin referenced THEN "none" ELSE st[u]]

\* The last conjunct of every handler: what it did to the references.
\* revoked.again holds the references it released that had been released
\* before.
References(urls, blobs, revokedUrls, revokedBlobs) ==
  /\ objectUrls' = Forget(urls, UrlsIn(images', fileReferences', pending'))
  /\ blobUrls' = Forget(blobs, BlobsIn(images', blobRegistry', pending'))
  /\ revoked' =
       [urls |-> revokedUrls, blobs |-> revokedBlobs,
        again |-> {<<"url", u>> : u \in {x \in revokedUrls :
                                           objectUrls[x] # "live"}}
                    \cup {<<"blob", b>> : b \in {x \in revokedBlobs :
                                                blobUrls[x] # "live"}}]

SameReferences == References(objectUrls, blobUrls, {}, {})

\* What the user can hand over or point at.
Batches == UNION {[1..n -> Files] : n \in 0..MaxBatch}
ItemIds == IdPool \cup {PersistedId}

\* The versions of an id's URL that createObjectURL can hand out.
FreeVersions(id) == {v \in Versions : objectUrls[Url(id, v)] = "none"}

(***************************************************************************)
(* The File Validator and the Blob Registry (collaborators of the          *)
(* component, described by the specification).                             *)
(***************************************************************************)
RECURSIVE ValidateFrom(_, _, _, _, _)
ValidateFrom(batch, k, hashes, fingerprints, acc) ==
  IF k > Len(batch) THEN acc
  ELSE LET f == batch[k] IN
    IF ~FileValid(f)
      THEN ValidateFrom(batch, k + 1, hashes, fingerprints,
                        [acc EXCEPT !.invalid = Append(@, f)])
    ELSE IF FileHash(f) \in hashes \/ Fingerprint(f) \in fingerprints
      THEN ValidateFrom(batch, k + 1, hashes, fingerprints,
                        [acc EXCEPT !.duplicates = Append(@, f)])
    ELSE ValidateFrom(batch, k + 1, hashes \cup {FileHash(f)},
                      fingerprints \cup {Fingerprint(f)},
                      [acc EXCEPT !.validFiles = Append(@, f)])

validateFilesWithMultiLayerValidation(batch, hashes, fingerprints) ==
  ValidateFrom(batch, 1, hashes, fingerprints,
               [validFiles |-> <<>>, invalid |-> <<>>, duplicates |-> <<>>])

registerBlobUrl(reg, blobUrl, fileHash) == Put(reg, blobUrl, fileHash)
revokeBlobUrl(reg, blobUrl) == Drop(reg, blobUrl)

(***************************************************************************)
(* ProductImageManager.                                                    *)
(***************************************************************************)
PersistedItem ==
  [id |-> PersistedId, url |-> RemoteUrl, file |-> Undefined,
   isFeatured |-> TRUE, fileHash |-> Undefined,
   visualFingerprint |-> Undefined, blobUrl |-> Undefined]

\* The list the host hands over at construction: empty (a new product) or
\* the persisted images of the product being edited.
InitialImages == {<<>>, <<PersistedItem>>}

MediaInit ==
  /\ images \in InitialImages
  /\ fileReferences = <<>>
  /\ processingQueueRef = FALSE
  /\ isProcessing = FALSE
  /\ imageToRecrop = Undefined
  /\ showCropper = FALSE
  /\ pending = <<>>
  /\ objectUrls = [u \in UrlPool |-> "none"]
  /\ blobUrls = [b \in IdPool |-> "none"]
  /\ blobRegistry = <<>>
  /\ mounted = TRUE
  /\ toasts = {}
  /\ revoked = [urls |-> {}, blobs |-> {}, again |-> {}]
  /\ lastRemoved = NoRemoval
  /\ crops = 0

\* The cropper is a dialog over the page (lines 396-404): while it is open
\* the controls of the page are out of reach.
Interactive == mounted /\ ~showCropper

remainingSlots(imgs) == maxImages - Len(imgs)
\* Without line 64: the whole FileList goes to the validator.
filesToAddUncut(batch, imgs) == batch
filesToAdd(batch, imgs) == Slice(batch, remainingSlots(imgs))
existingHashes(imgs) == {imgs[k].fileHash : k \in DOMAIN imgs} \ {Undefined}
existingFingerprints(imgs) ==
  {imgs[k].visualFingerprint : k \in DOMAIN imgs} \ {Undefined}

\* Without lines 54-57: no addition is ever turned away.
BusyNever == FALSE
\* Line 54: the guard that turns a second addition away.
Busy == processingQueueRef

\* The closure of a suspended handleFileSelect holds the images array of the
\* render it started in.  alias[k] says that element k of that array is still
\* the very object the current list holds under the same id, so that an
\* assignment to a field of the object shows through both.  reAdd is history:
\* the first file of the batch, when it is the file of the item that the
\* handler before this one removed.
Closure(batch, imgs, removedHash) ==
  [images |-> imgs,
   alias |-> [k \in DOMAIN imgs |-> TRUE],
   filesToAdd |-> filesToAdd(batch, imgs),
   existingHashes |-> existingHashes(imgs),
   existingFingerprints |-> existingFingerprints(imgs),
   reAdd |-> IF removedHash # Undefined
                  /\ FileHash(filesToAdd(batch, imgs)[1]) = removedHash
               THEN {filesToAdd(batch, imgs)[1]} ELSE {}]

\* handleFileSelect up to its first suspension (lines 51-90).
handleFileSelect(batch) ==
  /\ Interactive
  /\ lastRemoved' = NoRemoval
  /\ UNCHANGED <<images, fileReferences, imageToRecrop, showCropper,
                 blobRegistry, mounted, crops>>
  /\ IF Len(batch) = 0
       THEN /\ toasts' = {}
            /\ UNCHANGED <<processingQueueRef, isProcessing, pending>>
     ELSE IF Busy
       THEN /\ toasts' = {Toast("busy", {})}
            /\ UNCHANGED <<processingQueueRef, isProcessing, pending>>
     ELSE IF Len(filesToAdd(batch, images)) = 0
       THEN \* try { ... return } finally { ... }: nothing awaited in between
            /\ toasts' = {Toast("limit", {})}
            /\ processingQueueRef' = FALSE
            /\ isProcessing' = FALSE
            /\ UNCHANGED pending
     ELSE /\ toasts' = {}
          /\ processingQueueRef' = TRUE
          /\ isProcessing' = TRUE
          /\ pending' = Append(pending,
                Closure(batch, images, lastRemoved.hash))
  /\ SameReferences

\* handleDrop (lines 199-209): a second guard, on the isProcessing state.
handleDrop(batch) ==
  IF isProcessing
    THEN /\ Interactive
         /\ toasts' = {Toast("busy", {})}
         /\ lastRemoved' = NoRemoval
         /\ UNCHANGED <<images, fileReferences, processingQueueRef,
                        isProcessing, imageToRecrop, showCropper, pending,
                        blobRegistry, mounted, crops>>
         /\ SameReferences
    ELSE handleFileSelect(batch)

\* An item for the first accepted file only.
newImagesFirstOnly(closureImages, validFiles) ==
  [j \in DOMAIN SubSeq(validFiles, 1, 1) |->
     [id |-> NewId(validFiles[j]),
      url |-> Url(NewId(validFiles[j]), 0),
      file |-> validFiles[j],
      isFeatured |-> (Len(closureImages) = 0 /\ j = 1),
      fileHash |-> FileHash(validFiles[j]),
      visualFingerprint |-> Fingerprint(validFiles[j]),
      blobUrl |-> NewId(validFiles[j])]]

\* Lines 109-138: one MediaItem per accepted file.
newImages(closureImages, validFiles) ==
  [j \in DOMAIN validFiles |->
     [id |-> NewId(validFiles[j]),
      url |-> Url(NewId(validFiles[j]), 0),
      file |-> validFiles[j],
      isFeatured |-> (Len(closureImages) = 0 /\ j = 1),
      fileHash |-> FileHash(validFiles[j]),
      visualFingerprint |-> Fingerprint(validFiles[j]),
      blobUrl |-> NewId(validFiles[j])]]

\* Line 140.
combinedImages(closureImages, new) == closureImages \o new

\* Lines 116-120, for every new item.
RECURSIVE RegisterAll(_, _)
RegisterAll(reg, new) ==
  IF new = <<>> THEN reg
  ELSE RegisterAll(
         IF Head(new).fileHash # Undefined
              /\ Head(new).visualFingerprint # Undefined
           THEN registerBlobUrl(reg, Head(new).blobUrl, Head(new).fileHash)
           ELSE reg,
         Tail(new))

\* Lines 92-100: the notifications about refused files.
Report(r) ==
  (IF Len(r.invalid) > 0 THEN {Toast("invalid", Range(r.invalid))} ELSE {})
    \cup (IF Len(r.duplicates) > 0
            THEN {Toast("duplicates", Range(r.duplicates))} ELSE {})

WithoutIndex(s, k) == SubSeq(s, 1, k - 1) \o SubSeq(s, k + 1, Len(s))

\* A handler that ends without its finally block.
FinallyFlagKept(k) ==
  /\ UNCHANGED <<isProcessing, processingQueueRef>>
  /\ pending' = [j \in DOMAIN WithoutIndex(pending, k) |->
                   [WithoutIndex(pending, k)[j] EXCEPT
                      !.alias = [x \in DOMAIN @ |-> FALSE]]]

\* Lines 150-157.
Finally(k) ==
  /\ isProcessing' = FALSE
  /\ processingQueueRef' = FALSE
  /\ pending' = [j \in DOMAIN WithoutIndex(pending, k) |->
                   [WithoutIndex(pending, k)[j] EXCEPT
                      !.alias = [x \in DOMAIN @ |-> FALSE]]]

\* handleFileSelect from the validator's answer on (lines 92-157).
handleFileSelectResume(k) ==
  LET p == pending[k]
      r == validateFilesWithMultiLayerValidation(
             p.filesToAdd, p.existingHashes, p.existingFingerprints)
      new == newImages(p.images, r.validFiles)
  IN
  /\ lastRemoved' = NoRemoval
  /\ UNCHANGED <<imageToRecrop, showCropper, mounted, crops>>
  /\ Finally(k)
  /\ IF Len(r.validFiles) = 0
       THEN /\ toasts' = (IF Report(r) = {} THEN {Toast("novalid", {})}
                          ELSE Report(r))
            /\ UNCHANGED <<images, fileReferences, blobRegistry>>
            /\ SameReferences
       ELSE /\ fileReferences' =
                 [x \in DOMAIN fileReferences \cup Ids(new) |->
                    IF x \in Ids(new) THEN ItemOf(new, x).url
                    ELSE fileReferences[x]]
            /\ blobRegistry' = RegisterAll(blobRegistry, new)
            /\ images' = combinedImages(p.images, new)
            /\ toasts' = Report(r) \cup {Toast("success", {})}
            /\ References(
                 Create(objectUrls, {new[j].url : j \in DOMAIN new}),
                 Create(blobUrls, {new[j].blobUrl : j \in DOMAIN new}),
                 {}, {})

\* The validator rejects its promise: catch (lines 147-149), then finally.
handleFileSelectCatch(k) ==
  /\ lastRemoved' = NoRemoval
  /\ toasts' = {Toast("error", {})}
  /\ Finally(k)
  /\ UNCHANGED <<images, fileReferences, imageToRecrop, showCropper,
                 blobRegistry, mounted, crops>>
  /\ SameReferences

\* handleRecropImage (lines 193-196).
handleRecropImage(id) ==
  /\ Interactive
  /\ crops < MaxCrops
  /\ id \in Ids(images)
  /\ imageToRecrop' = id
  /\ showCropper' = TRUE
  /\ toasts' = {}
  /\ lastRemoved' = NoRemoval
  /\ UNCHANGED <<images, fileReferences, processingQueueRef, isProcessing,
                 pending, blobRegistry, mounted, crops>>
  /\ SameReferences

\* handleCropCancel (lines 188-191).
handleCropCancel ==
  /\ mounted
  /\ imageToRecrop # Undefined
  /\ imageToRecrop' = Undefined
  /\ showCropper' = FALSE
  /\ toasts' = {}
  /\ lastRemoved' = NoRemoval
  /\ UNCHANGED <<images, fileReferences, processingQueueRef, isProcessing,
                 pending, blobRegistry, mounted, crops>>
  /\ SameReferences

\* Lines 166-179 with a crop that drops the featured flag.
croppedImagesUnfeatured(imgs, id, newUrl) ==
  [k \in DOMAIN imgs |->
     IF imgs[k].id = id
       THEN [imgs[k] EXCEPT !.url = newUrl, !.file = CroppedFile,
                            !.isFeatured = FALSE]
       ELSE imgs[k]]

\* Lines 166-179: the map over images.
croppedImages(imgs, id, newUrl) ==
  [k \in DOMAIN imgs |->
     IF imgs[k].id = id
       THEN [imgs[k] EXCEPT !.url = newUrl, !.file = CroppedFile]
       ELSE imgs[k]]

\* Lines 168-171: the reference recorded under the id, which is released.
oldRef(refs, id) == IF id \in DOMAIN refs THEN {refs[id]} ELSE {}

\* handleCropComplete (lines 160-186).
handleCropComplete ==
  LET id == imageToRecrop
      hit == id \in Ids(images)
      newUrl == Url(id, CHOOSE v \in FreeVersions(id) :
                          \A w \in FreeVersions(id) : v <= w)
  IN
  /\ mounted
  /\ imageToRecrop # Undefined
  /\ hit => FreeVersions(id) # {}
  /\ lastRemoved' = NoRemoval
  /\ showCropper' = FALSE
  /\ imageToRecrop' = Undefined
  /\ toasts' = {Toast("cropped", {})}
  /\ UNCHANGED <<processingQueueRef, isProcessing, blobRegistry, mounted>>
  /\ crops' = crops + 1
  /\ IF hit
       THEN /\ fileReferences' = Put(fileReferences, id, newUrl)
            /\ images' = croppedImages(images, id, newUrl)
            /\ pending' =
                 [k \in DOMAIN pending |->
                    [pending[k] EXCEPT !.alias =
                       [j \in DOMAIN @ |->
                          @[j] /\ pending[k].images[j].id # id]]]
            /\ References(
                 Create(Revoke(objectUrls, oldRef(fileReferences, id)),
                        {newUrl}),
                 blobUrls, oldRef(fileReferences, id), {})
       ELSE /\ UNCHANGED <<fileReferences, images, pending>>
            /\ SameReferences

\* Setting the flag of the chosen item, leaving the others as they are.
featuredImagesUncleared(imgs, id) ==
  [k \in DOMAIN imgs |->
     IF imgs[k].id = id THEN [imgs[k] EXCEPT !.isFeatured = TRUE] ELSE imgs[k]]

\* Lines 221-224.
featuredImages(imgs, id) ==
  [k \in DOMAIN imgs |-> [imgs[k] EXCEPT !.isFeatured = (imgs[k].id = id)]]

\* setFeaturedImage (lines 220-226): every element is a new object.
setFeaturedImage(id) ==
  /\ Interactive
  /\ id \in Ids(images)
  /\ images' = featuredImages(images, id)
  /\ pending' = [k \in DOMAIN pending |->
                   [pending[k] EXCEPT !.alias = [j \in DOMAIN @ |-> FALSE]]]
  /\ toasts' = {}
  /\ lastRemoved' = NoRemoval
  /\ UNCHANGED <<fileReferences, processingQueueRef, isProcessing,
                 imageToRecrop, showCropper, blobRegistry, mounted, crops>>
  /\ SameReferences

\* Without the filter of line 230: the item stays in the list.
remainingImagesAll(imgs, id) == imgs

\* Without lines 232-234: nothing is promoted.
remainingImagesUnpromoted(imgs, id) ==
  SelectSeq(imgs, LAMBDA img : img.id # id)

\* Lines 229-234: the list removeImage hands to onChange.
remainingImages(imgs, id) ==
  LET rest == SelectSeq(imgs, LAMBDA img : img.id # id)
  IN IF ItemOf(imgs, id).isFeatured /\ Len(rest) > 0
       THEN [rest EXCEPT ![1].isFeatured = TRUE]
       ELSE rest

\* Line 233 assigns to a field of an object that the array of a suspended
\* handleFileSelect may hold too.
assignedThrough(closure, imgs, id) ==
  LET rest == remainingImages(imgs, id)
      promoted == ItemOf(imgs, id).isFeatured /\ Len(rest) > 0
  IN [closure EXCEPT !.images =
        [j \in DOMAIN @ |->
           IF promoted /\ closure.alias[j] /\ @[j].id = rest[1].id
             THEN [@[j] EXCEPT !.isFeatured = TRUE]
             ELSE @[j]]]

\* Lines 242-244: the blob reference removeImage releases.
blobOf(img) == IF img.blobUrl # Undefined THEN {img.blobUrl} ELSE {}

\* removeImage (lines 228-252).
removeImage(id) ==
  LET imageToRemove == ItemOf(images, id)
  IN
  /\ Interactive
  /\ id \in Ids(images)
  /\ images' = remainingImages(images, id)
  /\ pending' = [k \in DOMAIN pending |->
                   assignedThrough(pending[k], images, id)]
  /\ fileReferences' = Drop(fileReferences, id)
  /\ blobRegistry' =
       IF imageToRemove.blobUrl # Undefined
         THEN revokeBlobUrl(blobRegistry, imageToRemove.blobUrl)
         ELSE blobRegistry
  /\ toasts' = {}
  /\ lastRemoved' = [id |-> id, hash |-> imageToRemove.fileHash,
                      featured |-> imageToRemove.isFeatured,
                      len |-> Len(images)]
  /\ UNCHANGED <<processingQueueRef, isProcessing, imageToRecrop, showCropper,
                 mounted, crops>>
  /\ References(Revoke(objectUrls, oldRef(fileReferences, id)),
                Revoke(blobUrls, blobOf(imageToRemove)),
                oldRef(fileReferences, id), blobOf(imageToRemove))

\* The effect's cleanup (lines 43-49), run when the component unmounts.
Teardown ==
  /\ mounted
  /\ mounted' = FALSE
  /\ toasts' = {}
  /\ lastRemoved' = NoRemoval
  /\ UNCHANGED <<images, fileReferences, processingQueueRef, isProcessing,
                 imageToRecrop, showCropper, pending, blobRegistry, crops>>
  /\ References(Revoke(objectUrls, Range(fileReferences)), blobUrls,
                Range(fileReferences), {})

(***************************************************************************)
(* The upload pipeline: uploadProductImages and saveProductImages.         *)
(***************************************************************************)
UploadInit ==
  /\ files = 0
  /\ fileState = <<>>
  /\ started = 0
  /\ uploadedImages = <<>>
  /\ uploadToasts = {}
  /\ uploadResult = "idle"
  /\ productImages = <<>>
  /\ saveResult = "idle"
  /\ attempts = 0

\* Lines 488-496: the call, with n files.
uploadProductImages(n) ==
  /\ uploadResult = "idle"
  /\ files' = n
  /\ fileState' = [k \in 1..n |-> "waiting"]
  /\ uploadResult' = IF n = 0 THEN "returned" ELSE "running"
  /\ UNCHANGED <<started, uploadedImages, uploadToasts, productImages,
                 saveResult, attempts>>

Settled(k) == fileState[k] \in {"done", "failed"}

\* A loop that starts an iteration without awaiting the one before it.
loopReachesEarly(k) == k = started + 1

\* Lines 499-503 and 544: iteration k of the for loop begins when the loop
\* reaches it, every await of the iteration before it having returned.
loopReaches(k) == k = started + 1 /\ (IF k = 1 THEN TRUE ELSE Settled(k - 1))

\* Line 503: the iteration calls compressImage and awaits it.
BeginIteration(k) ==
  /\ uploadResult = "running"
  /\ k \in 1..files
  /\ fileState[k] = "waiting"
  /\ loopReaches(k)
  /\ started' = k
  /\ fileState' = [fileState EXCEPT ![k] = "compressing"]
  /\ UNCHANGED <<files, uploadedImages, uploadToasts, uploadResult,
                 productImages, saveResult, attempts>>

\* Lines 505-517: compressImage resolved, the upload is started and awaited.
CompressResolves(k) ==
  /\ uploadResult = "running"
  /\ k \in 1..files
  /\ fileState[k] = "compressing"
  /\ fileState' = [fileState EXCEPT ![k] = "uploading"]
  /\ attempts' = 1
  /\ UNCHANGED <<files, started, uploadedImages, uploadToasts, uploadResult,
                 productImages, saveResult>>

\* Line 516: { maxRetries: 3 }.
uploadMaxRetries == 3

\* The retry count of withRetry when none is passed (line 569).
defaultMaxRetries == 3

\* A wrapper that tries again whatever the count.
mayRetryForever(tried, maxRetries) == TRUE

\* The retry wrapper (withRetry, storageFromSupabase): an operation that
\* failed on a transient error is applied again while tries are left.
mayRetry(tried, maxRetries) == tried < maxRetries

\* Lines 508-517: the upload failed on a transient error and is tried again.
UploadRetries(k) ==
  /\ uploadResult = "running"
  /\ k \in 1..files
  /\ fileState[k] = "uploading"
  /\ mayRetry(attempts, uploadMaxRetries)
  /\ attempts' = attempts + 1
  /\ UNCHANGED <<files, fileState, started, uploadedImages, uploadToasts,
                 uploadResult, productImages, saveResult>>

\* A failure that ends the call instead of the iteration.
rethrow(k, kind) ==
  /\ fileState' = [fileState EXCEPT ![k] = "failed"]
  /\ uploadResult' = "raised"
  /\ UNCHANGED <<files, started, uploadedImages, uploadToasts, productImages,
                 saveResult, attempts>>

\* Lines 519-523 (an upload error, then continue) and lines 540-543 (the
\* catch of the iteration): the file is reported and the loop goes on.
reportAndGoOn(k, kind) ==
  /\ fileState' = [fileState EXCEPT ![k] = "failed"]
  /\ uploadToasts' = uploadToasts \cup {[image |-> k, kind |-> kind]}
  /\ UNCHANGED <<files, started, uploadedImages, uploadResult, productImages,
                 saveResult, attempts>>

\* compressImage rejected (lines 456, 465, 480, 483).
CompressRejects(k) ==
  /\ uploadResult = "running"
  /\ k \in 1..files
  /\ fileState[k] = "compressing"
  /\ reportAndGoOn(k, "process")

\* The upload answered with an error (lines 519-523).
UploadFails(k) ==
  /\ uploadResult = "running"
  /\ k \in 1..files
  /\ fileState[k] = "uploading"
  /\ reportAndGoOn(k, "upload")

\* storageFromSupabase threw (lines 540-543).
UploadThrows(k) ==
  /\ uploadResult = "running"
  /\ k \in 1..files
  /\ fileState[k] = "uploading"
  /\ reportAndGoOn(k, "process")

\* Lines 529-535: the record of files[i], with i = k - 1.
uploadedImage(k) ==
  [id |-> k - 1, url |-> k - 1, is_featured |-> (k - 1 = 0),
   media_type |-> "image", display_order |-> k - 1]

\* Lines 525-539: the upload succeeded.
UploadSucceeds(k) ==
  /\ uploadResult = "running"
  /\ k \in 1..files
  /\ fileState[k] = "uploading"
  /\ fileState' = [fileState EXCEPT ![k] = "done"]
  /\ uploadedImages' = Append(uploadedImages, uploadedImage(k))
  /\ UNCHANGED <<files, started, uploadToasts, uploadResult, productImages,
                 saveResult, attempts>>

\* Line 546: the loop is over.
UploadReturns ==
  /\ uploadResult = "running"
  /\ started = files
  /\ \A k \in 1..files : Settled(k)
  /\ uploadResult' = "returned"
  /\ UNCHANGED <<files, fileState, started, uploadedImages, uploadToasts,
                 productImages, saveResult, attempts>>

\* Lines 561-567.
imagesToInsert(uploaded) ==
  [k \in DOMAIN uploaded |->
     [url |-> uploaded[k].url, is_featured |-> uploaded[k].is_featured,
      media_type |-> uploaded[k].media_type,
      display_order |-> uploaded[k].display_order]]

\* saveProductImages (lines 553-577), called with what uploadProductImages
\* returned: nothing to do for an empty list, otherwise the insert is handed
\* to withRetry and awaited.
saveProductImages ==
  /\ uploadResult = "returned"
  /\ saveResult = "idle"
  /\ IF Len(uploadedImages) = 0
       THEN saveResult' = "returned" /\ UNCHANGED attempts
       ELSE saveResult' = "inserting" /\ attempts' = 1
  /\ UNCHANGED <<files, fileState, started, uploadedImages, uploadToasts,
                 uploadResult, productImages>>

\* Lines 569-577: the insert failed on a transient error and is tried again.
InsertRetries ==
  /\ saveResult = "inserting"
  /\ mayRetry(attempts, defaultMaxRetries)
  /\ attempts' = attempts + 1
  /\ UNCHANGED <<files, fileState, started, uploadedImages, uploadToasts,
                 uploadResult, productImages, saveResult>>

\* Lines 569-583: withRetry returned or threw; inserted says whether the
\* insert went through in the end.
InsertSettles(inserted) ==
  /\ saveResult = "inserting"
  /\ IF inserted
       THEN /\ saveResult' = "returned"
            /\ productImages' = productImages \o imagesToInsert(uploadedImages)
       ELSE saveResult' = "raised" /\ UNCHANGED productImages
  /\ UNCHANGED <<files, fileState, started, uploadedImages, uploadToasts,
                 uploadResult, attempts>>

(* Deletion: deleteProductImage and deleteProductImages.                   *)
(***************************************************************************)
\* Longest list of image ids handed to deleteProductImages.
MaxDelete == 2

VARIABLES
  imageIds,           \* deleteProductImages: how many ids it was given
  imageRecords,       \* the url of each record the select returned
  removal,            \* per record: where its deleteProductImage stands
  deletePhase,        \* where deleteProductImages stands
  rows,               \* the product_images rows of imageIds
  deleteLog           \* what console.error has logged

deleteVars == <<imageIds, imageRecords, removal, deletePhase, rows, deleteLog>>

DeleteInit ==
  /\ imageIds = 0
  /\ imageRecords = <<>>
  /\ removal = <<>>
  /\ deletePhase = "idle"
  /\ rows = "present"
  /\ deleteLog = {}

\* Lines 697-706: the call, and the select it awaits.
deleteProductImages(n) ==
  /\ deletePhase = "idle"
  /\ imageIds' = n
  /\ deletePhase' = "selecting"
  /\ UNCHANGED <<imageRecords, removal, rows, deleteLog>>

\* deleteProductImage up to its first await (lines 586-603): new URL() throws
\* and the catch logs; a url without a path attempts nothing; otherwise the
\* removal is requested and awaited.
\* Lines 604-606: the catch of deleteProductImage logs and returns.
catchStorageError == "failed"

\* The urls a record can hold: "stored", with a path under /public/;
\* "foreign", without such a path; "malformed", which new URL() refuses.
deleteProductImage(url) ==
  CASE url = "malformed" -> catchStorageError
    [] url = "foreign" -> "skipped"
    [] OTHER -> "removing"

RemovalSettled(k) == removal[k] \in {"removed", "failed", "thrown", "skipped"}

\* Awaiting nothing.
allSettledUnawaited == TRUE

\* Line 714: Promise.all(deletePromises) has resolved.
allSettled == \A k \in DOMAIN removal : RemovalSettled(k)

\* Lines 708-712: the select answered; deleteProductImage is called on every
\* record, one after the other, each running up to its await.
SelectResolves(urls) ==
  /\ deletePhase = "selecting"
  /\ Len(urls) = imageIds
  /\ imageRecords' = urls
  /\ removal' = [k \in DOMAIN urls |-> deleteProductImage(urls[k])]
  /\ deleteLog' = deleteLog \cup
       {[what |-> "deleteProductImage", error |-> "url", record |-> k] :
          k \in {j \in DOMAIN urls : urls[j] = "malformed"}}
  /\ deletePhase' = "removing"
  /\ UNCHANGED <<imageIds, rows>>

\* Lines 703-706 and 722-724: the select failed; the catch logs.
SelectRejects ==
  /\ deletePhase = "selecting"
  /\ deleteLog' = deleteLog \cup
       {[what |-> "deleteProductImages", error |-> "select", record |-> 0]}
  /\ deletePhase' = "returned"
  /\ UNCHANGED <<imageIds, imageRecords, removal, rows>>

\* Lines 592-602: the removal went through (within its retries).
RemoveResolves(k) ==
  /\ deletePhase = "removing"
  /\ k \in DOMAIN removal
  /\ removal[k] = "removing"
  /\ removal' = [removal EXCEPT ![k] = "removed"]
  /\ UNCHANGED <<imageIds, imageRecords, deletePhase, rows, deleteLog>>

\* Lines 598 and 604-606: the removal failed for good; the catch logs.
RemoveRejects(k) ==
  /\ deletePhase = "removing"
  /\ k \in DOMAIN removal
  /\ removal[k] = "removing"
  /\ removal' = [removal EXCEPT ![k] = catchStorageError]
  /\ deleteLog' = deleteLog \cup
       {[what |-> "deleteProductImage", error |-> "storage", record |-> k]}
  /\ UNCHANGED <<imageIds, imageRecords, deletePhase, rows>>

\* Lines 714-719: past Promise.all, the delete of the rows is requested.
RequestRowDelete ==
  /\ deletePhase = "removing"
  /\ allSettled
  /\ deletePhase' = "deleting"
  /\ UNCHANGED <<imageIds, imageRecords, removal, rows, deleteLog>>

\* Lines 716-724: the delete answered, with an error or without.
RowDeleteAnswers(error) ==
  /\ deletePhase = "deleting"
  /\ deletePhase' = "returned"
  /\ IF error
       THEN /\ deleteLog' = deleteLog \cup
                 {[what |-> "deleteProductImages", error |-> "delete",
                   record |-> 0]}
            /\ UNCHANGED rows
       ELSE /\ rows' = "deleted"
            /\ UNCHANGED deleteLog
  /\ UNCHANGED <<imageIds, imageRecords, removal>>

(***************************************************************************)
(* TieredPricingTable.  Prices are in cents; an optional number is a       *)
(* sequence, empty when the number is absent.                               *)
(***************************************************************************)
\* Longest tier list handed to the table.
MaxTiers == 3

VARIABLES
  tiers,                \* the array the host holds and passes as a prop
  basePrice,
  baseDiscountedPrice,
  priceTable            \* what the component returned for these props

pricingVars == <<tiers, basePrice, baseDiscountedPrice, priceTable>>

Absent == <<>>
Given(n) == <<n>>

\* The tiers a product can have: discounted price absent, zero, below, equal
\* to, negative, above the unit price; minimum quantities that repeat.
TierPool ==
  {[id |-> t[1], min_quantity |-> t[2], unit_price |-> t[3],
    discounted_unit_price |-> t[4]] :
     t \in {<<1, 10, 900, Absent>>, <<2, 50, 700, Given(0)>>,
            <<3, 5, 950, Given(600)>>, <<4, 10, 900, Given(900)>>,
            <<5, 50, 700, Given(-100)>>, <<6, 5, 950, Given(1200)>>}}


Unrendered == [state |-> "unrendered", rows |-> <<>>]

PricingInit ==
  /\ tiers = <<>>
  /\ basePrice = 0
  /\ baseDiscountedPrice = Absent
  /\ priceTable = Unrendered

\* A JavaScript number used as a condition: absent and 0 are falsy.
Truthy(o) == o # Absent /\ o[1] # 0

\* a || b
OrElse(a, b) == IF Truthy(a) THEN a ELSE b

\* Array.prototype.sort with the comparator of line 23: stable, ascending by
\* min_quantity.
RECURSIVE InsertTier(_, _)
InsertTier(sorted, tier) ==
  IF sorted = <<>> THEN <<tier>>
  ELSE IF tier.min_quantity - sorted[Len(sorted)].min_quantity >= 0
    THEN Append(sorted, tier)
    ELSE Append(InsertTier(SubSeq(sorted, 1, Len(sorted) - 1), tier),
                sorted[Len(sorted)])

RECURSIVE sortedTiersFrom(_, _)
sortedTiersFrom(list, k) ==
  IF k = 0 THEN <<>> ELSE InsertTier(sortedTiersFrom(list, k - 1), list[k])

\* Line 23: a copy of the prop, sorted.
sortedTiers(list) == sortedTiersFrom(list, Len(list))

\* sort called on the prop itself.
tiersAfterSortInPlace(list) == sortedTiers(list)

\* Line 23: sort works on the copy [...tiers]; the prop is as it was.
tiersAfterSort(list) == list

\* The list price whatever else is given.
baseUnitPriceList(base, baseDiscounted) == base

\* Line 24.
baseUnitPrice(base, baseDiscounted) == OrElse(baseDiscounted, Given(base))[1]

\* Math.round of num / den, den > 0: the nearest integer, halves upwards.
MathRound(num, den) == (2 * num + den) \div (2 * den)

\* Lines 26-29.
calculateSavingsPercentage(originalPrice, newPrice) ==
  IF originalPrice <= 0 THEN 0
  ELSE MathRound((originalPrice - newPrice) * 100, originalPrice)

\* Line 59.
discountedPrice(tier) == OrElse(tier.discounted_unit_price, Absent)

\* Lines 60, 67, 70: the condition on the discounted price.
hasDiscount(tier) ==
  /\ Truthy(discountedPrice(tier))
  /\ discountedPrice(tier)[1] > 0
  /\ discountedPrice(tier)[1] < tier.unit_price

\* Any discounted price given counts.
effectivePriceUnchecked(tier) ==
  IF Truthy(discountedPrice(tier)) THEN discountedPrice(tier)[1]
  ELSE tier.unit_price

\* Lines 60-62.
effectivePrice(tier) ==
  IF hasDiscount(tier) THEN discountedPrice(tier)[1] ELSE tier.unit_price

\* Lines 57-70: what is computed for one tier.
Row(tier, base, baseDiscounted) ==
  [id |-> tier.id,
   min_quantity |-> tier.min_quantity,
   unitPrice |-> tier.unit_price,
   discountedPrice |-> discountedPrice(tier),
   effectivePrice |-> effectivePrice(tier),
   totalAtQty |-> effectivePrice(tier) * tier.min_quantity,
   savings |-> baseUnitPrice(base, baseDiscounted) * tier.min_quantity
                 - effectivePrice(tier) * tier.min_quantity,
   savingsPercentage |->
     calculateSavingsPercentage(baseUnitPrice(base, baseDiscounted),
                                effectivePrice(tier)),
   discountPercentage |->
     IF hasDiscount(tier)
       THEN calculateSavingsPercentage(tier.unit_price,
                                       discountedPrice(tier)[1])
       ELSE 0,
   hasDiscount |-> hasDiscount(tier)]

\* The host's product gets one more tier, loses its tiers, gets other base
\* prices: the table is to be rendered with the new props.
HostAddsTier(tier) ==
  /\ Len(tiers) < MaxTiers
  /\ tiers' = Append(tiers, tier)
  /\ priceTable' = Unrendered
  /\ UNCHANGED <<basePrice, baseDiscountedPrice>>

HostDropsTiers ==
  /\ tiers' = <<>>
  /\ priceTable' = Unrendered
  /\ UNCHANGED <<basePrice, baseDiscountedPrice>>

HostSetsPrices(base, baseDiscounted) ==
  /\ basePrice' = base
  /\ baseDiscountedPrice' = baseDiscounted
  /\ priceTable' = Unrendered
  /\ UNCHANGED tiers

\* TieredPricingTable (lines 14-114).
TieredPricingTable ==
  /\ priceTable = Unrendered
  /\ IF Len(tiers) = 0
       THEN /\ priceTable' = [state |-> "null", rows |-> <<>>]
            /\ UNCHANGED tiers
       ELSE /\ priceTable' =
                 [state |-> "card",
                  rows |-> [k \in DOMAIN tiers |->
                              Row(sortedTiers(tiers)[k], basePrice,
                                  baseDiscountedPrice)]]
            /\ tiers' = tiersAfterSort(tiers)
  /\ UNCHANGED <<basePrice, baseDiscountedPrice>>

(***************************************************************************)
(* Row-level security of product_images and product_price_tiers.           *)
(***************************************************************************)
\* Most rows a table holds.
MaxRows == 2

VARIABLES
  tables,             \* per table: its rows, each [id, product_id]
  request             \* the last statement of a caller and what came of it

policyVars == <<tables, request>>

Callers == {1, 2}
Nobody == 0

\* The products table: a product of each caller, and one with no user_id.
Products ==
  {[id |-> 1, user_id |-> 1], [id |-> 2, user_id |-> 2],
   [id |-> 3, user_id |-> Nobody]}

Tables == {"product_images", "product_price_tiers"}

PolicyInit ==
  /\ tables = [t \in Tables |-> {}]
  /\ request = [op |-> "none", table |-> "product_images", caller |-> Nobody,
                old |-> 0, new |-> 0, allowed |-> FALSE, result |-> {}]

\* Lines 30-34: the rows of products a caller's sub-select sees.
visibleProducts(uid) == {p \in Products : uid = p.user_id}

\* The EXISTS sub-select every policy of the two tables uses (lines 70-74,
\* 135-139, ...).
ownsParent(uid, product_id) ==
  \E p \in visibleProducts(uid) : p.id = product_id /\ p.user_id = uid

\* Lines 65-75 and 130-140.
selectUsing(uid, row) == ownsParent(uid, row.product_id)

\* Lines 77-87 and 142-152.
insertWithCheck(uid, row) == ownsParent(uid, row.product_id)

\* Lines 93-99 and 158-164.
updateUsing(uid, row) == ownsParent(uid, row.product_id)

\* An update policy without a check of the new row.
updateWithCheckMissing(uid, row) == TRUE

\* Lines 100-106 and 165-171.
updateWithCheck(uid, row) == ownsParent(uid, row.product_id)

\* Lines 108-118 and 173-183.
deleteUsing(uid, row) == ownsParent(uid, row.product_id)

Select(uid, t) ==
  /\ request' = [op |-> "SELECT", table |-> t, caller |-> uid, old |-> 0,
                 new |-> 0, allowed |-> TRUE,
                 result |-> {r.id : r \in {x \in tables[t] : selectUsing(uid, x)}}]
  /\ UNCHANGED tables

Insert(uid, t, id, product_id) ==
  LET row == [id |-> id, product_id |-> product_id] IN
  /\ id \notin {r.id : r \in tables[t]}
  /\ request' = [op |-> "INSERT", table |-> t, caller |-> uid, old |-> 0,
                 new |-> product_id, allowed |-> insertWithCheck(uid, row),
                 result |-> {}]
  /\ tables' = IF insertWithCheck(uid, row)
                 THEN [tables EXCEPT ![t] = @ \cup {row}] ELSE tables

Update(uid, t, id, product_id) ==
  /\ id \in {r.id : r \in tables[t]}
  /\ LET old == CHOOSE r \in tables[t] : r.id = id
         new == [old EXCEPT !.product_id = product_id]
         allowed == updateUsing(uid, old) /\ updateWithCheck(uid, new)
     IN /\ request' = [op |-> "UPDATE", table |-> t, caller |-> uid,
                       old |-> old.product_id, new |-> product_id,
                       allowed |-> allowed, result |-> {}]
        /\ tables' = IF allowed
                       THEN [tables EXCEPT ![t] = (@ \ {old}) \cup {new}]
                       ELSE tables

Delete(uid, t, id) ==
  /\ id \in {r.id : r \in tables[t]}
  /\ LET old == CHOOSE r \in tables[t] : r.id = id IN
     /\ request' = [op |-> "DELETE", table |-> t, caller |-> uid,
                    old |-> old.product_id, new |-> 0,
                    allowed |-> deleteUsing(uid, old), result |-> {}]
     /\ tables' = IF deleteUsing(uid, old)
                    THEN [tables EXCEPT ![t] = @ \ {old}] ELSE tables

(***************************************************************************)
(* The migration that populates missing storefront settings.               *)
(***************************************************************************)
\* Most products the products table holds.
MaxProducts == 2
\* Runs in a row that are told apart.
MaxRuns == 2

VARIABLES
  storeProducts,      \* products: per id a row [user_id, visible, category]
  settings,           \* user_storefront_settings: per user_id its row
  cursor,             \* the user_ids the FOR query returned, not yet looped over
  looping,            \* the DO block is running
  cleanRuns           \* runs begun since the application last wrote

migrationVars == <<storeProducts, settings, cursor, looping, cleanRuns>>

NoProduct == [user_id |-> Nobody, visible |-> FALSE, category |-> {}]
NoSettings == [by |-> "none", categoryDisplaySettings |-> <<>>]
OwnSettings == [by |-> "user", categoryDisplaySettings |-> <<>>]

MigrationInit ==
  /\ storeProducts = [id \in 1..MaxProducts |-> NoProduct]
  /\ settings = [u \in Callers |-> NoSettings]
  /\ cursor = {}
  /\ looping = FALSE
  /\ cleanRuns = 0

\* The application, outside the migration: a user creates a product, a user
\* saves storefront settings of their own.
AppAddsProduct(id, u, visible, category) ==
  /\ storeProducts[id] = NoProduct
  /\ storeProducts' = [storeProducts EXCEPT ![id] =
                         [user_id |-> u, visible |-> visible,
                          category |-> category]]
  /\ cleanRuns' = 0
  /\ UNCHANGED <<settings, cursor, looping>>

AppSavesSettings(u) ==
  /\ settings' = [settings EXCEPT ![u] = OwnSettings]
  /\ cleanRuns' = 0
  /\ UNCHANGED <<storeProducts, cursor, looping>>

\* Lines 31-38: the user_ids of visible products whose user has no settings
\* row.
usersSelected ==
  {storeProducts[id].user_id :
     id \in {i \in DOMAIN storeProducts :
               /\ storeProducts[i] # NoProduct
               /\ storeProducts[i].visible
               /\ settings[storeProducts[i].user_id] = NoSettings}}

\* ORDER BY category_item.
RECURSIVE Ordered(_)
Ordered(S) ==
  IF S = {} THEN <<>>
  ELSE LET least == CHOOSE x \in S : \A y \in S : x <= y
       IN <<least>> \o Ordered(S \ {least})

\* Lines 42-49.
user_categories(u) ==
  Ordered(UNION {storeProducts[id].category :
                   id \in {i \in DOMAIN storeProducts :
                             /\ storeProducts[i].user_id = u
                             /\ storeProducts[i].visible}})

\* Lines 52-79 (the fixed flags of the settings left out).
settings_json(categories) ==
  [by |-> "migration",
   categoryDisplaySettings |->
     [k \in DOMAIN categories |->
        [category |-> categories[k], enabled |-> TRUE, order |-> k - 1]]]

\* INSERT ... ON CONFLICT (user_id) DO UPDATE.
insertOverwriting(table, u, row) == [table EXCEPT ![u] = row]

\* Lines 81-83: INSERT ... ON CONFLICT (user_id) DO NOTHING.
insertOnConflictDoNothing(table, u, row) ==
  IF table[u] # NoSettings THEN table ELSE [table EXCEPT ![u] = row]

\* Lines 22-38: the DO block starts and the FOR query is evaluated.
MigrationSelects ==
  /\ ~looping
  /\ looping' = TRUE
  /\ cursor' = usersSelected
  /\ cleanRuns' = Min(cleanRuns + 1, MaxRuns)
  /\ UNCHANGED <<storeProducts, settings>>

\* Lines 39-88: one turn of the loop.
MigrationLoop(u) ==
  /\ looping
  /\ u \in cursor
  /\ cursor' = cursor \ {u}
  /\ settings' =
       IF Len(user_categories(u)) > 0
         THEN insertOnConflictDoNothing(
                settings, u, settings_json(user_categories(u)))
         ELSE settings
  /\ UNCHANGED <<storeProducts, looping, cleanRuns>>

\* Lines 88-91.
MigrationCompletes ==
  /\ looping
  /\ cursor = {}
  /\ looping' = FALSE
  /\ UNCHANGED <<storeProducts, settings, cursor, cleanRuns>>

(***************************************************************************)
(* The rows of product_images: deleteProductImageRecord,                   *)
(* updateFeaturedImage, updateImageOrder and fetchProductImages.           *)
(***************************************************************************)
\* Most rows of product_images the product has.
MaxStored == 2
\* Most calls made in a run.
MaxCalls == 2

VARIABLES
  operation,            \* the operation awaiting its request, "idle" if none
  argument,             \* what it was called with: the ids of images, the
                        \* imageId or the imageUrl
  orderIndex,           \* updateImageOrder: i, the index whose write is awaited
  imageRows,            \* product_images: id -> is_featured, display_order
  rowsAtCall,           \* product_images when the operation was called
  featured_image_url,   \* products.featured_image_url
  writes,               \* the updates updateImageOrder has requested
  answer,               \* how the last operation ended, and with what
  errorLog,             \* what the operation in hand gave console.error
  calls

rowVars == <<operation, argument, orderIndex, imageRows, rowsAtCall,
             featured_image_url, writes, answer, errorLog, calls>>

\* The ids of the rows are 1..MaxStored; -1 is an id the upload pipeline
\* gave ('new-...').  The answer of outcome "none" is that of an operation
\* that has not ended yet.

RowInit ==
  /\ operation = "idle"
  /\ argument = <<>>
  /\ orderIndex = 0
  /\ imageRows = [id \in 1..MaxStored |->
                    [is_featured |-> (id = 1), display_order |-> id - 1]]
  /\ rowsAtCall = imageRows
  /\ featured_image_url = 0
  /\ writes = <<>>
  /\ answer = [op |-> "none", outcome |-> "none", value |-> <<>>]
  /\ errorLog = {}
  /\ calls = 0

\* A catch that throws on.
catchErrorRethrown(op, value) ==
  [op |-> op, outcome |-> "raised", value |-> value]

\* The catch of the four operations: console.error, and the function
\* returns (fetchProductImages: returns []).
catchError(op, value) ==
  [op |-> op, outcome |-> "returned", value |-> value]

\* The call of an operation, up to its first request.
Called(op, arg) ==
  /\ operation = "idle"
  /\ calls < MaxCalls
  /\ calls' = calls + 1
  /\ argument' = arg
  /\ rowsAtCall' = imageRows
  /\ errorLog' = {}
  /\ UNCHANGED <<imageRows, featured_image_url>>

\* Line 653: image.id.startsWith('new-').
startsWithNew(id) == id < 0

\* An update that features every image.
orderUpdateAllFeatured(i) == [is_featured |-> TRUE, display_order |-> i]

\* Lines 651 and 659-662: what is written for images[i].
orderUpdate(i) == [is_featured |-> (i = 0), display_order |-> i]

\* Lines 649-655: the first index from i on whose image is not skipped, or
\* images.length.
nextWrite(imgs, i) ==
  LET S == {j \in i..(Len(imgs) - 1) : ~startsWithNew(imgs[j + 1])}
  IN IF S = {} THEN Len(imgs) ELSE CHOOSE j \in S : \A x \in S : j <= x

\* updateImageOrder (lines 644-663), up to the first update it awaits.
updateImageOrder(imgs) ==
  LET i == nextWrite(imgs, 0) IN
  /\ Called("updateImageOrder", imgs)
  /\ orderIndex' = i
  /\ IF i = Len(imgs)
       THEN /\ operation' = "idle"
            /\ writes' = <<>>
            /\ answer' = [op |-> "updateImageOrder", outcome |-> "returned",
                           value |-> <<>>]
       ELSE /\ operation' = "updateImageOrder"
            /\ writes' = <<[id |-> imgs[i + 1], set |-> orderUpdate(i)]>>
            /\ answer' = [op |-> "none", outcome |-> "none", value |-> <<>>]

\* Lines 657-669: the update answered.  With an error the catch logs and the
\* function returns; without, the loop goes on to the next image that is not
\* skipped.
OrderWriteAnswers(error) ==
  LET id == argument[orderIndex + 1]
      i == nextWrite(argument, orderIndex + 1)
  IN
  /\ operation = "updateImageOrder"
  /\ UNCHANGED <<argument, rowsAtCall, featured_image_url, calls>>
  /\ IF error
       THEN /\ errorLog' = errorLog \cup {"updateImageOrder"}
            /\ answer' = catchError("updateImageOrder", <<>>)
            /\ operation' = "idle"
            /\ UNCHANGED <<imageRows, writes, orderIndex>>
       ELSE /\ imageRows' =
                 [x \in DOMAIN imageRows |->
                    IF x = id THEN orderUpdate(orderIndex) ELSE imageRows[x]]
            /\ orderIndex' = i
            /\ UNCHANGED errorLog
            /\ IF i = Len(argument)
                 THEN /\ operation' = "idle"
                      /\ answer' = [op |-> "updateImageOrder",
                                     outcome |-> "returned", value |-> <<>>]
                      /\ UNCHANGED writes
                 ELSE /\ writes' =
                           Append(writes, [id |-> argument[i + 1],
                                           set |-> orderUpdate(i)])
                      /\ UNCHANGED <<operation, answer>>

\* The operations of one request.
Requested(op, arg) ==
  /\ Called(op, arg)
  /\ operation' = op
  /\ answer' = [op |-> "none", outcome |-> "none", value |-> <<>>]
  /\ orderIndex' = 0
  /\ writes' = <<>>

\* Lines 609-616.
deleteProductImageRecord(imageId) ==
  Requested("deleteProductImageRecord", <<imageId>>)

\* Lines 622-637.
updateFeaturedImage(imageUrl) ==
  Requested("updateFeaturedImage", <<imageUrl>>)

\* Lines 672-678.
fetchProductImages == Requested("fetchProductImages", <<>>)

\* Lines 674-689: the rows in an order ascending by display_order, mapped.
fetchedData(table) ==
  {[k \in DOMAIN s |->
      [id |-> s[k], is_featured |-> table[s[k]].is_featured,
       display_order |-> table[s[k]].display_order]] :
     s \in {t \in [1..Cardinality(DOMAIN table) -> DOMAIN table] :
              /\ \A j, k \in DOMAIN t : j # k => t[j] # t[k]
              /\ \A j, k \in DOMAIN t :
                   j < k => table[t[j]].display_order
                              <= table[t[k]].display_order}}

\* The request of deleteProductImageRecord (lines 616-619),
\* updateFeaturedImage (lines 636-640) or fetchProductImages (lines 679-694)
\* answered (updateFeaturedImage: within its retries or after them).
RequestAnswers(error) ==
  /\ operation \in {"deleteProductImageRecord", "updateFeaturedImage",
                    "fetchProductImages"}
  /\ operation' = "idle"
  /\ UNCHANGED <<argument, orderIndex, rowsAtCall, writes, calls>>
  /\ IF error
       THEN /\ errorLog' = errorLog \cup {operation}
            /\ answer' = catchError(operation, <<>>)
            /\ UNCHANGED <<imageRows, featured_image_url>>
       ELSE /\ UNCHANGED errorLog
            /\ imageRows' =
                 IF operation = "deleteProductImageRecord"
                   THEN Drop(imageRows, argument[1])
                   ELSE imageRows
            /\ featured_image_url' =
                 IF operation = "updateFeaturedImage"
                   THEN argument[1]
                   ELSE featured_image_url
            /\ IF operation = "fetchProductImages"
                 THEN \E data \in fetchedData(imageRows) :
                        answer' = [op |-> operation, outcome |-> "returned",
                                   value |-> data]
                 ELSE answer' = [op |-> operation, outcome |-> "returned",
                                 value |-> <<>>]

(***************************************************************************)
(* The specifications.                                                     *)
(***************************************************************************)

vars == <<mediaVars, uploadVars, deleteVars, pricingVars, policyVars,
          migrationVars, rowVars>>

\* What the handlers of one part leave alone.
notMedia ==
  <<uploadVars, deleteVars, pricingVars, policyVars, migrationVars, rowVars>>
notUpload ==
  <<mediaVars, deleteVars, pricingVars, policyVars, migrationVars, rowVars>>
notDelete ==
  <<mediaVars, uploadVars, pricingVars, policyVars, migrationVars, rowVars>>
notPricing ==
  <<mediaVars, uploadVars, deleteVars, policyVars, migrationVars, rowVars>>
notPolicy ==
  <<mediaVars, uploadVars, deleteVars, pricingVars, migrationVars, rowVars>>
notMigration ==
  <<mediaVars, uploadVars, deleteVars, pricingVars, policyVars, rowVars>>
notRows ==
  <<mediaVars, uploadVars, deleteVars, pricingVars, policyVars,
    migrationVars>>

Init ==
  /\ MediaInit
  /\ UploadInit
  /\ DeleteInit
  /\ PricingInit
  /\ PolicyInit
  /\ MigrationInit
  /\ RowInit

\* The Media Manager.
Next ==
  \/ \E batch \in Batches : handleFileSelect(batch) /\ UNCHANGED notMedia
  \/ \E batch \in Batches : handleDrop(batch) /\ UNCHANGED notMedia
  \/ \E k \in DOMAIN pending :
       handleFileSelectResume(k) /\ UNCHANGED notMedia
  \/ \E k \in DOMAIN pending :
       handleFileSelectCatch(k) /\ UNCHANGED notMedia
  \/ \E id \in ItemIds : handleRecropImage(id) /\ UNCHANGED notMedia
  \/ handleCropCancel /\ UNCHANGED notMedia
  \/ handleCropComplete /\ UNCHANGED notMedia
  \/ \E id \in ItemIds : setFeaturedImage(id) /\ UNCHANGED notMedia
  \/ \E id \in ItemIds : removeImage(id) /\ UNCHANGED notMedia
  \/ Teardown /\ UNCHANGED notMedia

Spec == Init /\ [][Next]_vars

\* The Media Manager of a new product: the list starts empty.
EmptyInit == Init /\ images = <<>>
EmptySpec == EmptyInit /\ [][Next]_vars

\* The upload pipeline.
UploadNext ==
  \/ \E n \in 0..MaxUpload : uploadProductImages(n) /\ UNCHANGED notUpload
  \/ \E k \in 1..MaxUpload : BeginIteration(k) /\ UNCHANGED notUpload
  \/ \E k \in 1..MaxUpload : CompressResolves(k) /\ UNCHANGED notUpload
  \/ \E k \in 1..MaxUpload : CompressRejects(k) /\ UNCHANGED notUpload
  \/ \E k \in 1..MaxUpload : UploadRetries(k) /\ UNCHANGED notUpload
  \/ \E k \in 1..MaxUpload : UploadFails(k) /\ UNCHANGED notUpload
  \/ \E k \in 1..MaxUpload : UploadThrows(k) /\ UNCHANGED notUpload
  \/ \E k \in 1..MaxUpload : UploadSucceeds(k) /\ UNCHANGED notUpload
  \/ UploadReturns /\ UNCHANGED notUpload
  \/ saveProductImages /\ UNCHANGED notUpload
  \/ InsertRetries /\ UNCHANGED notUpload
  \/ \E inserted \in BOOLEAN : InsertSettles(inserted) /\ UNCHANGED notUpload

UploadSpec == Init /\ [][UploadNext]_vars

\* Deletion.
DeleteNext ==
  \/ \E n \in 0..MaxDelete : deleteProductImages(n) /\ UNCHANGED notDelete
  \/ \E urls \in UNION {[1..n -> {"stored", "foreign", "malformed"}] :
                         n \in 0..MaxDelete} :
       SelectResolves(urls) /\ UNCHANGED notDelete
  \/ SelectRejects /\ UNCHANGED notDelete
  \/ \E k \in 1..MaxDelete : RemoveResolves(k) /\ UNCHANGED notDelete
  \/ \E k \in 1..MaxDelete : RemoveRejects(k) /\ UNCHANGED notDelete
  \/ RequestRowDelete /\ UNCHANGED notDelete
  \/ \E error \in BOOLEAN : RowDeleteAnswers(error) /\ UNCHANGED notDelete

DeleteSpec == Init /\ [][DeleteNext]_vars

\* The pricing table.
PricingNext ==
  \/ \E tier \in TierPool : HostAddsTier(tier) /\ UNCHANGED notPricing
  \/ HostDropsTiers /\ UNCHANGED notPricing
  \/ \E base \in {0, 1000}, baseDiscounted \in {Absent, Given(0), Given(800)} :
       HostSetsPrices(base, baseDiscounted) /\ UNCHANGED notPricing
  \/ TieredPricingTable /\ UNCHANGED notPricing

PricingSpec == Init /\ [][PricingNext]_vars

\* Statements of authenticated callers on the two tables.
PolicyNext ==
  \/ \E uid \in Callers, t \in Tables : Select(uid, t) /\ UNCHANGED notPolicy
  \/ \E uid \in Callers, t \in Tables, id \in 1..MaxRows, p \in Products :
       Insert(uid, t, id, p.id) /\ UNCHANGED notPolicy
  \/ \E uid \in Callers, t \in Tables, id \in 1..MaxRows, p \in Products :
       Update(uid, t, id, p.id) /\ UNCHANGED notPolicy
  \/ \E uid \in Callers, t \in Tables, id \in 1..MaxRows :
       Delete(uid, t, id) /\ UNCHANGED notPolicy

PolicySpec == Init /\ [][PolicyNext]_vars

\* The migration, and the application beside it.
MigrationNext ==
  \/ \E id \in 1..MaxProducts, u \in Callers, visible \in BOOLEAN,
        category \in {{}, {2, 1}} :
       AppAddsProduct(id, u, visible, category) /\ UNCHANGED notMigration
  \/ \E u \in Callers : AppSavesSettings(u) /\ UNCHANGED notMigration
  \/ MigrationSelects /\ UNCHANGED notMigration
  \/ \E u \in Callers : MigrationLoop(u) /\ UNCHANGED notMigration
  \/ MigrationCompletes /\ UNCHANGED notMigration

MigrationSpec == Init /\ [][MigrationNext]_vars

\* The persistence operations, one family of them exercised in a run: the
\* upload pipeline, the deletion, or the operations on the rows of
\* product_images, called with lists of distinct ids.
PersistNext ==
  \/ (DeleteInit /\ RowInit) /\ UploadNext
  \/ (UploadInit /\ RowInit) /\ DeleteNext
  \/ /\ UploadInit /\ DeleteInit
     /\ \/ \E imgs \in UNION {[1..n -> (1..MaxStored) \cup {-1}] :
                                n \in 0..(MaxStored + 1)} :
             /\ \A j, k \in DOMAIN imgs : j # k => imgs[j] # imgs[k]
             /\ updateImageOrder(imgs)
        \/ \E error \in BOOLEAN : OrderWriteAnswers(error)
        \/ \E imageId \in 1..MaxStored : deleteProductImageRecord(imageId)
        \/ \E imageUrl \in 1..MaxStored : updateFeaturedImage(imageUrl)
        \/ fetchProductImages
        \/ \E error \in BOOLEAN : RequestAnswers(error)
     /\ UNCHANGED notRows

PersistSpec == Init /\ [][PersistNext]_vars

(***************************************************************************)
(* The claims about the Media Manager.                                     *)
(***************************************************************************)
IdsInOrder(imgs) == [k \in DOMAIN imgs |-> imgs[k].id]
InFlight == pending # <<>>

\* C1: the MediaItem list never holds more than maxImages items; a batch is
\* cut to its first (maxImages - current count) files before validation, so
\* what a suspended addition holds always fits beside the list it started
\* from.
C1_ListWithinMaxImages ==
  /\ Len(images) <= maxImages
  /\ \A batch \in Batches :
       filesToAdd(batch, images)
         = SubSeq(batch, 1, Min(Len(batch), maxImages - Len(images)))
  /\ \A k \in DOMAIN pending :
       Len(pending[k].images) + Len(pending[k].filesToAdd) <= maxImages

\* The list is full and a batch that arrived was cut to nothing.
C1_Witness == Len(images) = maxImages /\ Toast("limit", {}) \in toasts

\* C2: starting from the empty list, exactly one item is featured when the
\* list is non-empty and none when it is empty.
C2_ExactlyOneFeatured ==
  FeaturedCount(images) = (IF Len(images) = 0 THEN 0 ELSE 1)

\* C3: at most one addition is in flight; while one is, the guards that turn
\* a second one away are set, and the request turned away with the busy
\* notification leaves the list, the local references, the busy flag and the
\* addition in flight as they were.
C3_OneAdditionInFlight ==
  [][/\ Len(pending') <= 1
     /\ (pending' # <<>> => processingQueueRef' /\ isProcessing')
     /\ (Toast("busy", {}) \in toasts' =>
           /\ InFlight
           /\ UNCHANGED <<images, fileReferences, processingQueueRef,
                          isProcessing, pending, objectUrls, blobRegistry>>)
    ]_vars

\* An addition is in flight and a second request has just been turned away.
C3_Witness == InFlight /\ Toast("busy", {}) \in toasts

\* C4: every local reference is released exactly once by the end of a run
\* that tears the component down: none is released twice, and once the
\* component is gone and no addition is left in flight none is still held.
C4_ReleasedExactlyOnce ==
  /\ revoked.again = {}
  /\ (~mounted /\ ~InFlight) =>
       /\ \A u \in UrlPool : objectUrls[u] # "live"
       /\ \A b \in IdPool : blobUrls[b] # "live"

\* C5: removeImage leaves the other items in their order; when it removed
\* the featured item of a list of two or more the new first item is
\* featured; when it removed the only item the list is empty, with no
\* featured item.
C5_RemovalPromotesFirst ==
  [][lastRemoved'.len > 0 =>
       /\ Len(images) = lastRemoved'.len
       /\ IdsInOrder(images')
            = SelectSeq(IdsInOrder(images), LAMBDA x : x # lastRemoved'.id)
       /\ (lastRemoved'.featured /\ lastRemoved'.len >= 2 =>
             images'[1].isFeatured)
       /\ (lastRemoved'.len = 1 =>
             images' = <<>> /\ FeaturedCount(images') = 0)
    ]_vars

\* The featured item of a list of two or more has just been removed.
C5_Witness ==
  lastRemoved.featured /\ lastRemoved.len >= 2 /\ images[1].isFeatured

\* The files of an addition in flight whose content hash is the hash of an
\* item of the list the addition started from.
HashHeld(p) ==
  {p.filesToAdd[j] : j \in {i \in DOMAIN p.filesToAdd :
      FileValid(p.filesToAdd[i])
        /\ \E m \in DOMAIN p.images :
             p.images[m].fileHash = FileHash(p.filesToAdd[i])}}

Answer(p) ==
  validateFilesWithMultiLayerValidation(
    p.filesToAdd, p.existingHashes, p.existingFingerprints)

C12_FeatureSelectsExactlyThatItem ==
  \A id \in Ids(images) :
    LET updatedImages == featuredImages(images, id)
    IN /\ Len(updatedImages) = Len(images)
       /\ \A k \in DOMAIN images :
            /\ updatedImages[k] =
                 [images[k] EXCEPT !.isFeatured = updatedImages[k].isFeatured]
            /\ updatedImages[k].isFeatured = (images[k].id = id)

\* An item added in this session has been made the featured one in place of
\* the persisted item, which stands before it in the list.
C12_Witness ==
  \E j, k \in DOMAIN images :
    /\ j < k
    /\ images[j].id = PersistedId
    /\ ~images[j].isFeatured
    /\ images[k].isFeatured
    /\ FeaturedCount(images) = 1

\* An addition ends by handing a longer list to onChange.
AdditionSucceeds(k) ==
  /\ k \in DOMAIN pending
  /\ Len(pending') < Len(pending)
  /\ Toast("success", {}) \in toasts'

\* Where the items created by the addition start in the list handed over.
CreatedFrom(k) == Len(images') - Len(Answer(pending[k]).validFiles)

\* The items an addition creates: featured only when first and the list was
\* empty at the start.
NewFlags(k) ==
  \A j \in (CreatedFrom(k) + 1)..Len(images') :
    images'[j].isFeatured =
      (Len(pending[k].images) = 0 /\ j = CreatedFrom(k) + 1)

\* The items of the list keep their flags over a successful addition.
OldFlagsKept(k) ==
  \A m \in DOMAIN images : \A j \in 1..CreatedFrom(k) :
    images'[j].id = images[m].id =>
      images'[j].isFeatured = images[m].isFeatured

\* C13: when an addition succeeds, an item it creates is featured only if the
\* list was empty when the addition started and the item is the first one
\* accepted; every other item it creates is not featured; and every item that
\* was in the list keeps the isFeatured it had.
C13_AdditionFeaturesFirstOfEmptyOnly ==
  [][\A k \in DOMAIN pending :
       AdditionSucceeds(k) => NewFlags(k) /\ OldFlagsKept(k)]_vars

\* The files of a batch the validator has no reason to refuse: of an allowed
\* type and size, and of a content the list does not hold.
Acceptable(p) ==
  {f \in Range(p.filesToAdd) :
     /\ FileValid(f)
     /\ FileHash(f) \notin p.existingHashes
     /\ Fingerprint(f) \notin p.existingFingerprints}

FirstIndex(s, f) == CHOOSE i \in DOMAIN s : s[i] = f /\ \A j \in 1..(i - 1) : s[j] # f

\* The files of the items an addition appends to the list it started from.
CreatedFiles(p) ==
  [j \in 1..(Len(images') - Len(p.images)) |-> images'[Len(p.images) + j].file]

\* C14: when the validator answers, every file it refused is named in a
\* notification of its kind (invalid, duplicate), and every file of the cut
\* batch it has no reason to refuse gets one item, appended to the list in
\* the order of the batch, however many other files of the batch were refused.
C14_RejectionsReportedOthersAdded ==
  [][\A k \in DOMAIN pending :
       (Len(pending') < Len(pending) /\ Toast("error", {}) \notin toasts') =>
         LET p == pending[k]
             created == IF Acceptable(p) = {} THEN <<>> ELSE CreatedFiles(p)
         IN /\ \A f \in Range(Answer(p).invalid) :
                 \E t \in toasts' : t.kind = "invalid" /\ f \in t.files
            /\ \A f \in Range(Answer(p).duplicates) :
                 \E t \in toasts' : t.kind = "duplicates" /\ f \in t.files
            /\ Acceptable(p) = {} => UNCHANGED images
            /\ Range(created) = Acceptable(p)
            /\ Len(created) = Cardinality(Acceptable(p))
            /\ \A a, b \in DOMAIN created :
                 a < b => FirstIndex(p.filesToAdd, created[a])
                            < FirstIndex(p.filesToAdd, created[b])
    ]_vars

\* An addition has just added a file of a batch in which another file was
\* refused.
C14_Witness ==
  /\ Toast("success", {}) \in toasts
  /\ \E t \in toasts : t.kind \in {"invalid", "duplicates"} /\ t.files # {}

\* C21: whenever no addition is in flight the busy flag (the ref and the
\* state) is false, whichever way the last handleFileSelect ended (files
\* added, no free slot, no valid file, the validator rejecting), and a
\* request is turned away as busy only while an addition is in flight.
C21_BusyFlagReleased ==
  /\ ~InFlight => (~processingQueueRef /\ ~isProcessing)
  /\ Toast("busy", {}) \in toasts => InFlight

\* An addition has just ended in the catch of handleFileSelect, and the flag
\* is down.
C21_Witness ==
  /\ Toast("error", {}) \in toasts
  /\ ~InFlight
  /\ ~processingQueueRef

\* C22: when an addition completes, the list it hands over is the list as it
\* is at that moment, changes made while the addition was in flight included
\* (a removed item stays removed, the featured item chosen stays featured, a
\* cropped file stays in place), followed by the items the addition creates.
C22_ChangesInFlightKept ==
  [][\A k \in DOMAIN pending :
       AdditionSucceeds(k) =>
         SubSeq(images', 1, CreatedFrom(k)) = images]_vars

\* The items of the list that were created in this session.
SessionIds == Ids(images) \ {PersistedId}

\* C23: while the component is mounted, no item of the list has a url whose
\* object reference has been released, and fileReferences has an entry for
\* an id exactly when an item created in this session with that id is in the
\* list.
C23_ReferencesMatchList ==
  mounted =>
    /\ \A k \in DOMAIN images :
         images[k].url \in DOMAIN objectUrls =>
           objectUrls[images[k].url] # "revoked"
    /\ DOMAIN fileReferences = SessionIds

(***************************************************************************)
(* The claims about the upload pipeline.                                   *)
(***************************************************************************)
Done == {k \in DOMAIN fileState : fileState[k] = "done"}
Failed == {k \in DOMAIN fileState : fileState[k] = "failed"}
InProgress ==
  {k \in DOMAIN fileState : fileState[k] \in {"compressing", "uploading"}}

\* C8: uploadProductImages never raises when files fail; once it has
\* returned, every file was gone through, every failed file was reported,
\* and there is exactly one record per file that did not fail, in input
\* order.
C8_PartialSuccessReturned ==
  /\ uploadResult # "raised"
  /\ uploadResult = "returned" =>
       /\ \A k \in 1..files : Settled(k)
       /\ \A k \in Failed : \E t \in uploadToasts : t.image = k
       /\ \A t \in uploadToasts : t.image \in Failed
       /\ Len(uploadedImages) = Cardinality(Done)
       /\ \A j \in DOMAIN uploadedImages : uploadedImages[j].id + 1 \in Done
       /\ \A i, j \in DOMAIN uploadedImages :
            i < j => uploadedImages[i].id < uploadedImages[j].id

\* Three files, the second failed: two records, of the first and the third.
C8_Witness ==
  /\ uploadResult = "returned"
  /\ fileState = <<"done", "failed", "done">>
  /\ Len(uploadedImages) = 2
  /\ uploadedImages[1].id = 0
  /\ uploadedImages[2].id = 2

DenseOneFeatured(records) ==
  /\ \A j \in DOMAIN records : records[j].display_order = j - 1
  /\ records # <<>> =>
       /\ Cardinality({j \in DOMAIN records : records[j].is_featured}) = 1
       /\ records[1].is_featured

\* C9: the records uploadProductImages returns, and the rows
\* saveProductImages writes from them, have display_order 0..k-1 and exactly
\* one featured record, the one of display_order 0, also when files failed.
C9_DenseOrderOneFeatured ==
  /\ uploadResult = "returned" => DenseOneFeatured(uploadedImages)
  /\ DenseOneFeatured(productImages)

\* C10: the files are processed in input order, one at a time: a file is
\* not touched before every file ahead of it has its record or its failure
\* report.
C10_OneFileAtATime ==
  /\ Cardinality(InProgress) <= 1
  /\ \A k \in DOMAIN fileState :
       fileState[k] # "waiting" => \A j \in 1..(k - 1) : Settled(j)

\* The second file is being uploaded, the first one having been dealt with.
C10_Witness ==
  /\ files >= 2
  /\ Settled(1)
  /\ fileState[2] = "uploading"

Uploading == {k \in DOMAIN fileState : fileState[k] = "uploading"}

\* C18: the upload of a file is tried at most uploadMaxRetries times and the
\* insert of the rows at most defaultMaxRetries times; when the last try is
\* used up nothing is tried again: the upload ends with the file's record or
\* with the file reported as failed, the insert ends with saveProductImages
\* returning or raising.
C18_BoundedAttempts ==
  [][/\ Uploading' # {} => attempts' \in 1..uploadMaxRetries
     /\ saveResult' = "inserting" => attempts' \in 1..defaultMaxRetries
     /\ \A k \in Uploading :
          attempts = uploadMaxRetries =>
            /\ attempts' = attempts
            /\ fileState'[k] \in {"done", "failed"}
            /\ fileState'[k] = "failed" =>
                 \E t \in uploadToasts' : t.image = k
     /\ (saveResult = "inserting" /\ attempts = defaultMaxRetries) =>
          /\ attempts' = attempts
          /\ saveResult' \in {"returned", "raised"}
    ]_vars

\* The upload of a file was tried uploadMaxRetries times and the file is
\* reported as failed; the loop is still running.
C18_Witness ==
  /\ uploadResult = "running"
  /\ attempts = uploadMaxRetries
  /\ started \in DOMAIN fileState
  /\ fileState[started] = "failed"
  /\ [image |-> started, kind |-> "upload"] \in uploadToasts

(***************************************************************************)
(* Deletion.                                                               *)
(***************************************************************************)
Logged(what, k) == \E e \in deleteLog : e.what = what /\ e.record = k

RowsTouched == deletePhase = "deleting" \/ rows = "deleted"

\* C11: deleteProductImages requests the delete of the metadata rows only
\* after deleteProductImage has run to its end on every record, having
\* attempted the removal of every record's remote object; a removal that fails
\* is logged by deleteProductImage and never thrown on, and once
\* deleteProductImages has returned with the select and the row delete both
\* answered without error, the rows are deleted whatever the removals did.
C11_RemovalsBeforeRowsBestEffort ==
  /\ RowsTouched =>
       \A k \in DOMAIN imageRecords :
         /\ RemovalSettled(k)
         /\ imageRecords[k] = "stored" => removal[k] \in {"removed", "failed"}
  /\ \A k \in DOMAIN removal :
       /\ removal[k] # "thrown"
       /\ removal[k] = "failed" => Logged("deleteProductImage", k)
  /\ (deletePhase = "returned" /\ ~Logged("deleteProductImages", 0)) =>
       rows = "deleted"

\* The rows are deleted although the removal of a remote object failed.
C11_Witness ==
  /\ rows = "deleted"
  /\ \E k \in DOMAIN removal :
       imageRecords[k] = "stored" /\ removal[k] = "failed"

(***************************************************************************)
(* The pricing table.                                                      *)
(***************************************************************************)
TierOf(row) == CHOOSE tier \in TierPool : tier.id = row.id
Rendered == priceTable.state = "card"
CountIn(s, id) == Cardinality({k \in DOMAIN s : s[k].id = id})

\* C15: rendering shows one row per tier of the list it was given, ordered by
\* min_quantity ascending, and leaves that list as it was: same tiers, same
\* order.
C15_RowsAscendingInputUntouched ==
  [][priceTable' # Unrendered =>
       /\ tiers' = tiers
       /\ Len(priceTable'.rows) = Len(tiers)
       /\ \A tier \in TierPool :
            CountIn(priceTable'.rows, tier.id) = CountIn(tiers, tier.id)
       /\ \A j, k \in DOMAIN priceTable'.rows :
            j < k => priceTable'.rows[j].min_quantity
                       <= priceTable'.rows[k].min_quantity
    ]_vars

\* The minimum quantities 10, 50, 5 are shown as 5, 10, 50.
C15_Witness ==
  /\ Rendered
  /\ [k \in DOMAIN tiers |-> tiers[k].min_quantity] = <<10, 50, 5>>
  /\ [k \in DOMAIN priceTable.rows |-> priceTable.rows[k].min_quantity]
       = <<5, 10, 50>>

\* The discounted price of a tier is given, positive and strictly below the
\* unit price.
ActiveDiscount(tier) ==
  /\ tier.discounted_unit_price # Absent
  /\ tier.discounted_unit_price[1] > 0
  /\ tier.discounted_unit_price[1] < tier.unit_price

\* C16: in every row, the effective unit price is the tier's discounted unit
\* price when that price is given, positive and strictly below the unit price,
\* and the unit price in every other case (absent, zero, negative, equal,
\* above); the total is the effective price times min_quantity.
C16_DiscountOnlyWhenPositiveAndBelow ==
  Rendered =>
    \A k \in DOMAIN priceTable.rows :
      LET row == priceTable.rows[k]
          tier == TierOf(row)
      IN /\ row.effectivePrice =
              IF ActiveDiscount(tier) THEN tier.discounted_unit_price[1]
              ELSE tier.unit_price
         /\ row.hasDiscount = ActiveDiscount(tier)
         /\ row.totalAtQty = row.effectivePrice * tier.min_quantity

\* A table showing a tier with a discounted price below the unit price beside
\* tiers whose discounted price equals the unit price and is negative.
C16_Witness ==
  /\ Rendered
  /\ {priceTable.rows[k].id : k \in DOMAIN priceTable.rows} = {3, 4, 5}
  /\ \E k \in DOMAIN priceTable.rows :
       priceTable.rows[k].id = 3 /\ priceTable.rows[k].hasDiscount

\* n is num / den rounded to the nearest integer, halves upwards (den > 0).
IsRounded(n, num, den) ==
  (2 * n - 1) * den <= 2 * num /\ 2 * num < (2 * n + 1) * den

\* C17: in every row the savings percentage is
\* round((base - effective) / base * 100) with base the basePrice prop.
C17_SavingsAgainstBasePrice ==
  (Rendered /\ basePrice > 0) =>
    \A k \in DOMAIN priceTable.rows :
      IsRounded(priceTable.rows[k].savingsPercentage,
                (basePrice - priceTable.rows[k].effectivePrice) * 100,
                basePrice)

\* The base the table computes savings against.
BaseOfSavings ==
  IF baseDiscountedPrice # Absent /\ baseDiscountedPrice[1] # 0
    THEN baseDiscountedPrice[1] ELSE basePrice

\* C17, amended: in every row the savings percentage is
\* round((base - effective) / base * 100) with base the baseDiscountedPrice
\* prop when it is given and not zero and the basePrice prop otherwise, and
\* is 0 when that base is not positive.
C17_SavingsAgainstBaseUnitPrice ==
  Rendered =>
    \A k \in DOMAIN priceTable.rows :
      IF BaseOfSavings <= 0
        THEN priceTable.rows[k].savingsPercentage = 0
        ELSE IsRounded(priceTable.rows[k].savingsPercentage,
                       (BaseOfSavings - priceTable.rows[k].effectivePrice) * 100,
                       BaseOfSavings)

\* With basePrice 10.00 and a discounted base price of 8.00, the tier at 7.00
\* shows 13 (12.5 rounded), not the 30 that basePrice gives.
C17_Witness ==
  /\ Rendered
  /\ basePrice = 1000
  /\ baseDiscountedPrice = Given(800)
  /\ \E k \in DOMAIN priceTable.rows :
       /\ priceTable.rows[k].effectivePrice = 700
       /\ priceTable.rows[k].savingsPercentage = 13

(***************************************************************************)
(* Row-level security.                                                     *)
(***************************************************************************)
\* products.user_id of a product.
OwnerOf(product_id) ==
  (CHOOSE p \in Products : p.id = product_id).user_id

\* C19: a select returns exactly the rows whose parent product has the
\* caller's id as user_id; an insert and a delete go through if and only if
\* the row's parent product is the caller's; an update goes through if and
\* only if the parent product of the row as it is and of the row as it
\* would become are both the caller's; so no caller reads or writes a row of
\* another user's product.
C19_AllowedIffParentOwned ==
  /\ request.op = "SELECT" =>
       request.result =
         {r.id : r \in {x \in tables[request.table] :
                          OwnerOf(x.product_id) = request.caller}}
  /\ request.op = "INSERT" =>
       (request.allowed <=> OwnerOf(request.new) = request.caller)
  /\ request.op = "UPDATE" =>
       (request.allowed <=> /\ OwnerOf(request.old) = request.caller
                            /\ OwnerOf(request.new) = request.caller)
  /\ request.op = "DELETE" =>
       (request.allowed <=> OwnerOf(request.old) = request.caller)
  /\ \A t \in Tables : \A r \in tables[t] : OwnerOf(r.product_id) \in Callers

\* A caller tried to move a row of its own product to the product of another
\* user and was refused.
C19_Witness ==
  /\ request.op = "UPDATE"
  /\ ~request.allowed
  /\ OwnerOf(request.old) = request.caller
  /\ OwnerOf(request.new) \in Callers \ {request.caller}

(***************************************************************************)
(* The storefront settings migration.                                      *)
(***************************************************************************)
HasProducts(u) ==
  \E id \in DOMAIN storeProducts : storeProducts[id].user_id = u

\* C20: a turn of the migration's loop changes the settings row of a user
\* only by inserting one for a user who has products and had no row; a row
\* that exists is left as it is; and a run begun after another run, the
\* application having written nothing since that one began, changes nothing.
C20_OnlyMissingSettingsInserted ==
  [][(looping /\ cursor' # cursor) =>
       /\ \A u \in Callers :
            settings'[u] # settings[u] =>
              /\ settings[u] = NoSettings
              /\ HasProducts(u)
              /\ settings'[u].by = "migration"
       /\ cleanRuns = MaxRuns => settings' = settings
    ]_vars

\* Two runs in a row: the first one inserted the row of a user, the user
\* with settings of their own kept them, and the second run is at its end.
C20_Witness ==
  /\ looping
  /\ cursor = {}
  /\ cleanRuns = MaxRuns
  /\ \E u, v \in Callers :
       /\ settings[u].by = "migration"
       /\ Len(settings[u].categoryDisplaySettings) = 2
       /\ settings[v] = OwnSettings
       /\ HasProducts(v)

(***************************************************************************)
(* The claims about the persistence operations.                            *)
(***************************************************************************)
CallFailed(op) == op \in errorLog
SaveEnded == saveResult \in {"returned", "raised"}

\* C24: of the persistence operations only saveProductImages raises when the
\* database fails: it ends by raising exactly when its insert did not go
\* through.  deleteProductImage never throws on and deleteProductImages never
\* raises; deleteProductImageRecord, updateFeaturedImage and updateImageOrder
\* log a failure and return; fetchProductImages logs it and returns the empty
\* list.
C24_OnlySaveRaises ==
  /\ SaveEnded =>
       (saveResult = "raised" <=> Len(productImages) < Len(uploadedImages))
  /\ \A k \in DOMAIN removal : removal[k] # "thrown"
  /\ deletePhase # "raised"
  /\ Logged("deleteProductImages", 0) => deletePhase = "returned"
  /\ answer.outcome # "raised"
  /\ \A op \in {"deleteProductImageRecord", "updateFeaturedImage",
                "updateImageOrder", "fetchProductImages"} :
       (CallFailed(op) /\ operation = "idle") =>
         answer = [op |-> op, outcome |-> "returned", value |-> <<>>]

\* fetchProductImages, called second, failed and returned the empty list
\* although there are rows.
C24_Witness ==
  /\ calls = 2
  /\ CallFailed("fetchProductImages")
  /\ operation = "idle"
  /\ answer.outcome = "returned"
  /\ answer.value = <<>>
  /\ DOMAIN imageRows # {}

\* The state is that of an updateImageOrder, in flight or ended.
Ordering == operation = "updateImageOrder" \/ answer.op = "updateImageOrder"
OrderFailed == CallFailed("updateImageOrder") /\ operation = "idle"

\* The positions (from 0) of the persisted images of the list, and the
\* position of an id.
PersistedPositions == {i \in 0..(Len(argument) - 1) : argument[i + 1] > 0}
PositionOf(id) == CHOOSE i \in 0..(Len(argument) - 1) : argument[i + 1] = id

\* The writes that went through: all but the last one while it is awaited or
\* when it failed.
WritesDone ==
  IF operation = "updateImageOrder" \/ OrderFailed
    THEN 1..(Len(writes) - 1)
    ELSE DOMAIN writes

\* C25: updateImageOrder writes, for the persisted images of its list in list
\* order, display_order equal to the position in the list and is_featured
\* true exactly for position 0; it issues no write for an id starting with
\* 'new-'; it stops at the first failing write, and the rows of the images
\* from that one on stay as they were.
C25_OrderWrittenUntilFirstFailure ==
  Ordering =>
    /\ \A k \in DOMAIN writes :
         /\ writes[k].id > 0
         /\ PositionOf(writes[k].id) \in PersistedPositions
         /\ Cardinality({i \in PersistedPositions :
                           i <= PositionOf(writes[k].id)}) = k
         /\ writes[k].set =
              [is_featured |-> (PositionOf(writes[k].id) = 0),
               display_order |-> PositionOf(writes[k].id)]
    /\ Len(writes) <= Cardinality(PersistedPositions)
    /\ (operation = "idle" /\ ~OrderFailed) =>
         Len(writes) = Cardinality(PersistedPositions)
    /\ \A k \in WritesDone :
         writes[k].id \in DOMAIN imageRows =>
           imageRows[writes[k].id] = writes[k].set
    /\ \A id \in DOMAIN imageRows :
         (\A k \in WritesDone : writes[k].id # id) =>
           imageRows[id] = rowsAtCall[id]

\* The list 2, 'new-', 1: the row of 2 is written as position 0 and featured,
\* nothing is written for 'new-', the write of the row of 1 fails and that
\* row stays as it was.
C25_Witness ==
  /\ argument = <<2, -1, 1>>
  /\ {1, 2} \subseteq DOMAIN imageRows
  /\ OrderFailed
  /\ Len(writes) = 2
  /\ imageRows[2] = [is_featured |-> TRUE, display_order |-> 0]
  /\ writes[2] = [id |-> 1, set |-> [is_featured |-> FALSE,
                                      display_order |-> 2]]
  /\ imageRows[1] = rowsAtCall[1]

====
